---- MODULE Spec2Model ----
(***************************************************************************)
(* The rhythm dashboard's classification pipeline: the module-level load   *)
(* of the two persisted artifacts (rhythm_mapping.py), the public function *)
(* classify_rhythm_state, and the callers of that function.                *)
(***************************************************************************)
EXTENDS Integers, Sequences, FiniteSets, TLC

VARIABLES
    files,          \* the two persisted artifact files on disk
    pc,             \* position of the Classifier process
    KMEANS_MODEL,   \* module global of rhythm_mapping.py
    SCALER,         \* module global of rhythm_mapping.py
    loads,          \* joblib.load calls made by the current process
    starts,         \* process starts so far
    user_input,     \* the feature row built by the last call (<<>> if none)
    result,         \* outcome of the last call of classify_rhythm_state
    history,        \* the direct calls made so far: artifacts, arguments,
                    \* outcome and process run of each
    session,        \* st.session_state of the dashboard session
    view,           \* what the last script run of the session rendered
    asked,          \* the state name of the session's last text-generation
                    \* call ("" if none)
    dataset,        \* whether the Trainer's CSV file is in its directory
    trainer         \* the Trainer script (unsupervised_analysis.py): its
                    \* position, its objects, what it printed, and the
                    \* files it found on disk when it started

vars == <<files, pc, KMEANS_MODEL, SCALER, loads, starts, user_input,
          result, history, session, view, asked, dataset, trainer>>

ui == <<session, view, asked>>

offline == <<dataset, trainer>>

----------------------------------------------------------------------------
(* Bounds of the model.                                                    *)

MaxStarts == 2
MaxRecorded == 3
MaxTrainings == 2

----------------------------------------------------------------------------
(* Python values.                                                          *)

None == [type |-> "None"]

Ok(v) == [ok |-> TRUE, val |-> v, exc |-> "", msg |-> ""]
Raise(t, m) == [ok |-> FALSE, val |-> None, exc |-> t, msg |-> m]

\* Exception classes that `except Exception` catches.
ExceptionClasses == {"ValueError", "NotFittedError", "KeyError",
                     "AttributeError", "TypeError"}

\* An argument of a call: a finite real, NaN, a nested list (which numpy
\* cannot put into a rectangular array), or an object whose conversion to
\* float raises with the text msg.  q names the quantity the caller means.
Float(q, v) == [q |-> q, kind |-> "float", v |-> v, msg |-> ""]
NaN(q) == [q |-> q, kind |-> "nan", v |-> 0, msg |-> ""]
List(q) == [q |-> q, kind |-> "list", v |-> 0, msg |-> ""]
Object(q, m) == [q |-> q, kind |-> "object", v |-> 0, msg |-> m]

----------------------------------------------------------------------------
(* The persisted artifacts.  Feature positions are 1..3 here for the       *)
(* source's 0..2.                                                          *)

CLUSTER_FEATURES == <<"screen_time_hours", "sleep_hours", "productivity_0_100">>

optimal_k == 5

\* A fitted StandardScaler: per-feature mean and scale, in CLUSTER_FEATURES
\* order.
FittedScaler == [type |-> "StandardScaler", fitted |-> TRUE,
                 mean |-> <<6, 7, 60>>, scale |-> <<2, 1, 20>>]
UnfittedScaler == [type |-> "StandardScaler", fitted |-> FALSE,
                   mean |-> <<0, 0, 0>>, scale |-> <<1, 1, 1>>]

\* A fitted KMeans with optimal_k centroids in standardized space.
FittedKMeans == [type |-> "KMeans", fitted |-> TRUE,
                 centers |-> << <<2, -2, -2>>, <<-2, 1, 1>>, <<0, 0, 0>>,
                                <<0, -3, 0>>, <<2, 0, 0>> >>]
\* A fitted KMeans of another cluster count (an artifact not written by
\* this Trainer's final fit).
WiderKMeans == [type |-> "KMeans", fitted |-> TRUE,
                centers |-> << <<2, -2, -2>>, <<-2, 1, 1>>, <<0, 0, 0>>,
                               <<0, -3, 0>>, <<2, 0, 0>>, <<-3, -6, -3>> >>]
UnfittedKMeans == [type |-> "KMeans", fitted |-> FALSE, centers |-> << >>]

\* The objects a run of the Trainer fits (lines 28-29 and 52-53); run names
\* the run, the parameters are what it learned from the dataset of that run.
TrainedScaler(run) ==
    [type |-> "StandardScaler", fitted |-> TRUE,
     mean |-> <<6 + run, 7, 60>>, scale |-> <<2, 1, 20>>, run |-> run]
TrainedKMeans(run) ==
    [type |-> "KMeans", fitted |-> TRUE, centers |-> FittedKMeans.centers,
     run |-> run]

Absent == [state |-> "absent", obj |-> None]
Corrupt == [state |-> "corrupt", obj |-> None]
Present(o) == [state |-> "ok", obj |-> o]

ModelFiles == {Absent, Corrupt, Present(FittedKMeans), Present(WiderKMeans),
               Present(UnfittedKMeans)}
ScalerFiles == {Absent, Corrupt, Present(FittedScaler),
                Present(UnfittedScaler)}

\* joblib.load: the object, FileNotFoundError, or another error for a file
\* that is there and cannot be unpickled.
joblib_load(f) ==
    CASE f.state = "absent" -> Raise("FileNotFoundError", "No such file")
      [] f.state = "corrupt" -> Raise("UnpicklingError", "invalid load key")
      [] OTHER -> Ok(f.obj)

----------------------------------------------------------------------------
(* The library calls of the try block.                                     *)

\* np.array([[...]]): a nested list among the entries makes the row ragged.
np_array(row) ==
    IF \E i \in 1..Len(row) : row[i].kind = "list"
    THEN Raise("ValueError",
               "setting an array element with a sequence.")
    ELSE Ok(row)

FirstObject(X) ==
    CHOOSE i \in 1..Len(X) :
        /\ X[i].kind = "object"
        /\ \A j \in 1..(i - 1) : X[j].kind # "object"

\* StandardScaler.transform: the fitted check comes first, then the
\* conversion of the row to floats (NaN passes), then (x - mean) / scale,
\* kept as the exact fraction num / den.
transform(scaler, X) ==
    IF scaler = None
    THEN Raise("AttributeError",
               "'NoneType' object has no attribute 'transform'")
    ELSE IF ~scaler.fitted
    THEN Raise("NotFittedError",
               "This StandardScaler instance is not fitted yet.")
    ELSE IF \E i \in 1..Len(X) : X[i].kind = "object"
    THEN Raise("ValueError", X[FirstObject(X)].msg)
    ELSE Ok([i \in 1..Len(X) |->
               IF X[i].kind = "nan"
               THEN [nan |-> TRUE, num |-> 0, den |-> 1]
               ELSE [nan |-> FALSE, num |-> X[i].v - scaler.mean[i],
                     den |-> scaler.scale[i]]])

RECURSIVE DenProduct(_, _)
DenProduct(S, n) == IF n = 0 THEN 1 ELSE S[n].den * DenProduct(S, n - 1)

\* Squared distance of the scaled row S to centroid c, times the square of
\* the product of the denominators (the same factor for every centroid).
RECURSIVE Dist2(_, _, _)
Dist2(S, c, n) ==
    IF n = 0 THEN 0
    ELSE LET t == (S[n].num - c[n] * S[n].den)
                      * (DenProduct(S, Len(S)) \div S[n].den)
         IN  t * t + Dist2(S, c, n - 1)

\* The first position of the least entry of d (numpy's argmin), 0-based.
argmin(d) ==
    (CHOOSE k \in 1..Len(d) :
        /\ \A j \in 1..Len(d) : d[k] <= d[j]
        /\ \A j \in 1..(k - 1) : d[j] > d[k])
    - 1

\* The nearest centroid, the lowest index winning a tie.
Nearest(centers, S) ==
    argmin([k \in 1..Len(centers) |-> Dist2(S, centers[k], Len(S))])

\* KMeans.predict: the fitted check, then the finiteness check of the row,
\* then the nearest-centroid index of each row.
predict(model, S) ==
    IF model = None
    THEN Raise("AttributeError",
               "'NoneType' object has no attribute 'predict'")
    ELSE IF ~model.fitted
    THEN Raise("NotFittedError", "This KMeans instance is not fitted yet.")
    ELSE IF \E i \in 1..Len(S) : S[i].nan
    THEN Raise("ValueError", "Input X contains NaN.")
    ELSE Ok(<<Nearest(model.centers, S)>>)

----------------------------------------------------------------------------
(* rhythm_mapping.py                                                       *)

\* The table with one label entered twice.
CLUSTER_TO_STATE_repeated ==
    [i \in 0..4 |->
        CASE i = 0 -> "Burnout State"
          [] i = 1 -> "Flow State"
          [] i = 2 -> "Balanced State"
          [] i = 3 -> "Burnout State"
          [] i = 4 -> "Digital Drift State"]

CLUSTER_TO_STATE ==
    [i \in 0..4 |->
        CASE i = 0 -> "Burnout State"
          [] i = 1 -> "Flow State"
          [] i = 2 -> "Balanced State"
          [] i = 3 -> "Fatigue State"
          [] i = 4 -> "Digital Drift State"]

\* dict.get(key, default)
dict_get(d, key, default) == IF key \in DOMAIN d THEN d[key] ELSE default

\* The lookup written as a subscript: an absent key raises KeyError.
map_index_subscript(cluster_index) ==
    IF cluster_index \in DOMAIN CLUSTER_TO_STATE
    THEN Ok([label |-> CLUSTER_TO_STATE[cluster_index], known |-> TRUE])
    ELSE Raise("KeyError", "index")

\* Line 49: the lookup with its default.
map_index(cluster_index) ==
    Ok([label |-> dict_get(CLUSTER_TO_STATE, cluster_index, "Unknown State"),
        known |-> cluster_index \in DOMAIN CLUSTER_TO_STATE])

\* The row built in the order of the function's parameters.
build_user_input_as_passed(sleep_hours, screen_time, productivity_score) ==
    <<sleep_hours, screen_time, productivity_score>>

\* The row of line 40.
build_user_input(sleep_hours, screen_time, productivity_score) ==
    <<screen_time, sleep_hours, productivity_score>>

Return(v, b) == [outcome |-> "return", value |-> v, branch |-> b]
Escape(t) == [outcome |-> "raise", value |-> t, branch |-> "uncaught"]
NoResult == [outcome |-> "none", value |-> "", branch |-> ""]

\* Line 49, reached with the prediction of line 46 unless that raised.
Line49(pred) == IF ~pred.ok THEN pred ELSE map_index(pred.val[1])

\* Line 46, reached with the scaled row of line 43 unless that raised.
Line46(scaled_input) ==
    IF ~scaled_input.ok THEN scaled_input
    ELSE Line49(predict(KMEANS_MODEL, scaled_input.val))

\* Line 43, reached with the row of line 40 unless that raised.
Line43(arr) ==
    IF ~arr.ok THEN arr ELSE Line46(transform(SCALER, arr.val))

\* Lines 39-49: the body of the try block.
TryBody(sleep_hours, screen_time, productivity_score) ==
    Line43(np_array(build_user_input(sleep_hours, screen_time,
                                     productivity_score)))

\* The handlers without the catch-all clause.
Handlers_no_catch_all(r) ==
    IF r.exc = "NotFittedError"
    THEN Return("Model Not Fitted Error", "not fitted")
    ELSE Escape(r.exc)

\* The handlers with the catch-all clause written first.
Handlers_catch_all_first(r) ==
    IF r.exc \in ExceptionClasses
    THEN Return("Classification Error: " \o r.msg, "generic")
    ELSE IF r.exc = "NotFittedError"
    THEN Return("Model Not Fitted Error", "not fitted")
    ELSE Escape(r.exc)

\* The handlers with a catch-all clause that drops an empty cause.
Handlers_drop_empty_cause(r) ==
    IF r.exc = "NotFittedError"
    THEN Return("Model Not Fitted Error", "not fitted")
    ELSE IF r.exc \in ExceptionClasses
    THEN Return(IF r.msg = "" THEN "Classification Error"
                ELSE "Classification Error: " \o r.msg, "generic")
    ELSE Escape(r.exc)

\* Lines 51-54: the two handlers of the try block.
Handlers(r) ==
    IF r.exc = "NotFittedError"
    THEN Return("Model Not Fitted Error", "not fitted")
    ELSE IF r.exc \in ExceptionClasses
    THEN Return("Classification Error: " \o r.msg, "generic")
    ELSE Escape(r.exc)

\* How the try statement ends, given how its body ended.
TryEnd(r) ==
    IF r.ok
    THEN Return(r.val.label, IF r.val.known THEN "label" ELSE "unknown index")
    ELSE Handlers(r)

\* The function without the guard of lines 35-36.
classify_without_guard(sleep_hours, screen_time, productivity_score) ==
    TryEnd(TryBody(sleep_hours, screen_time, productivity_score))

\* The function answering from the result of the call before, if any.
classify_from_last_result(sleep_hours, screen_time, productivity_score) ==
    IF result.outcome = "return"
    THEN result
    ELSE IF KMEANS_MODEL = None \/ SCALER = None
    THEN Return("Classification Error", "unavailable")
    ELSE TryEnd(TryBody(sleep_hours, screen_time, productivity_score))

classify_rhythm_state(sleep_hours, screen_time, productivity_score) ==
    IF KMEANS_MODEL = None \/ SCALER = None
    THEN Return("Classification Error", "unavailable")
    ELSE TryEnd(TryBody(sleep_hours, screen_time, productivity_score))

----------------------------------------------------------------------------
(* app.py: the per-label styling table.                                    *)

RHYTHM_STATES ==
    [name \in {"Flow State", "Digital Drift State", "Balanced State",
               "Burnout State", "Fatigue State", "Unknown State"} |->
        CASE name = "Flow State" -> "#00A39C"
          [] name = "Digital Drift State" -> "#8058a5"
          [] name = "Balanced State" -> "#306DCC"
          [] name = "Burnout State" -> "#C44E52"
          [] name = "Fatigue State" -> "#FF8C00"
          [] OTHER -> "gray"]

----------------------------------------------------------------------------
(* app.py: the session state and one run of the script.                    *)

\* The session before its first script run, and the view of no run.
NoSession ==
    [analyze_clicked |-> FALSE, input_expanded |-> FALSE,
     user_inputs |-> None,
     sleep_input |-> None, screen_time_input |-> None,
     productivity_slider |-> None, goal_text |-> ""]
NotOpened == [page |-> "not opened", expander |-> FALSE]

\* Lines 269-272 and 75-82: the defaults a first run puts in the session.
InitialSession ==
    [analyze_clicked |-> FALSE, input_expanded |-> TRUE,
     user_inputs |-> None,
     sleep_input |-> Float("sleep_hours", 7),
     screen_time_input |-> Float("screen_time", 8),
     productivity_slider |-> Float("productivity", 60),
     goal_text |-> "Finish presentation deck"]

\* Lines 139-145: the dict render_input_ui returns.
render_input_ui(sess, clicked) ==
    [sleep_hours |-> sess.sleep_input,
     screen_time |-> sess.screen_time_input,
     productivity_score |-> sess.productivity_slider,
     goal |-> sess.goal_text,
     analyze_clicked |-> clicked]

\* Python's `sub in text` for strings.
Contains(text, sub) ==
    \E i \in 1..(Len(text) - Len(sub) + 1) :
        SubSeq(text, i, i + Len(sub) - 1) = sub

GeminiOutcomes == {"ok", "request failed", "malformed json"}

\* What one run of the script leaves: the session, the page it rendered,
\* whether the input expander was rendered, whether it ended in st.rerun(),
\* the call of classify_rhythm_state it made, if any, and the state name
\* it gave the text-generation service, if any.
RunEnd(sess, page, expander, rerun, called, res, row) ==
    [sess |-> sess, page |-> page, expander |-> expander, rerun |-> rerun,
     called |-> called, res |-> res, row |-> row, asked |-> ""]

\* The run ending as r called the text-generation service for state_name.
Asked(r, state_name) == [r EXCEPT !.asked = state_name]

\* The "back to the inputs" buttons without the reset of analyze_clicked.
Expanded_keeps_clicked(sess) == [sess EXCEPT !.input_expanded = TRUE]

\* The flags the four "back to the inputs" buttons set.
Expanded(sess) ==
    [sess EXCEPT !.input_expanded = TRUE, !.analyze_clicked = FALSE]

\* The row line 40 builds in a call, none when the guard returns first.
RowOf(sleep_hours, screen_time, productivity_score) ==
    IF KMEANS_MODEL = None \/ SCALER = None
    THEN <<>>
    ELSE build_user_input(sleep_hours, screen_time, productivity_score)

\* The test of line 320 without its second half.
IsErrorResult_by_word_only(state_name) == Contains(state_name, "Error")

\* Line 320: the results that get the error notice.
IsErrorResult(state_name) ==
    Contains(state_name, "Error") \/ state_name = "Unknown State"

\* The text-generation block without its except clause.
GeminiBlock_no_except(sess, expander, event, gemini, res, row) ==
    IF gemini = "ok"
    THEN IF event = "new_analysis_btn"
         THEN RunEnd(Expanded(sess), "", expander, TRUE, TRUE, res, row)
         ELSE RunEnd(sess, "results", expander, FALSE, TRUE, res, row)
    ELSE RunEnd(sess, "uncaught exception", expander, FALSE, TRUE, res, row)

\* Lines 346-436: the text-generation call, the result cards with their
\* button, and the except clause with its button.
GeminiBlock(sess, expander, event, gemini, res, row) ==
    IF gemini = "ok"
    THEN IF event = "new_analysis_btn"
         THEN RunEnd(Expanded(sess), "", expander, TRUE, TRUE, res, row)
         ELSE RunEnd(sess, "results", expander, FALSE, TRUE, res, row)
    ELSE IF event = "api_error_modify_btn"
    THEN RunEnd(Expanded(sess), "", expander, TRUE, TRUE, res, row)
    ELSE RunEnd(sess, "api error", expander, FALSE, TRUE, res, row)

\* Lines 320-436: the analysis block after the call of line 318 gave res.
AfterClassify(sess, expander, event, gemini, res, row) ==
    IF res.outcome = "raise"
    THEN RunEnd(sess, "uncaught exception", expander, FALSE, TRUE, res, row)
    ELSE IF IsErrorResult(res.value)
    THEN IF event = "error_modify_btn"
         THEN RunEnd(Expanded(sess), "", expander, TRUE, TRUE, res, row)
         ELSE RunEnd(sess, "classification error", expander, FALSE, TRUE,
                     res, row)
    ELSE IF res.value \notin DOMAIN RHYTHM_STATES
    THEN RunEnd(sess, "uncaught exception", expander, FALSE, TRUE, res, row)
    ELSE Asked(GeminiBlock(sess, expander, event, gemini, res, row),
               res.value)

\* Lines 311-436: the analysis block, for the inputs of this run.
Analysis(sess, inputs, expander, event, gemini) ==
    AfterClassify(sess, expander, event, gemini,
                  classify_rhythm_state(inputs.sleep_hours,
                                        inputs.screen_time,
                                        inputs.productivity_score),
                  RowOf(inputs.sleep_hours, inputs.screen_time,
                        inputs.productivity_score))

\* One run of the script when the collapsed view has no uncollapse button.
ScriptRun_no_uncollapse(sess, event, gemini) ==
    LET collapsed == sess.analyze_clicked /\ ~sess.input_expanded
        rendered == render_input_ui(sess, event = "analyze_btn")
    IN  IF rendered.analyze_clicked
        THEN RunEnd([sess EXCEPT !.user_inputs = rendered,
                                 !.analyze_clicked = TRUE,
                                 !.input_expanded = FALSE],
                    "", collapsed, TRUE, FALSE, NoResult, <<>>)
        ELSE LET inputs == IF collapsed THEN sess.user_inputs ELSE rendered
             IN  IF sess.analyze_clicked /\ inputs # None
                 THEN Analysis(sess, inputs, collapsed, event, gemini)
                 ELSE RunEnd(sess, "inputs", collapsed, FALSE, FALSE,
                             NoResult, <<>>)

\* Lines 275-436: one run of the script, with the button that was clicked
\* (or "none") and the outcome of the text-generation call if it is made.
ScriptRun(sess, event, gemini) ==
    LET collapsed == sess.analyze_clicked /\ ~sess.input_expanded
        rendered == render_input_ui(sess, event = "analyze_btn")
    IN  IF rendered.analyze_clicked
        THEN RunEnd([sess EXCEPT !.user_inputs = rendered,
                                 !.analyze_clicked = TRUE,
                                 !.input_expanded = FALSE],
                    "", collapsed, TRUE, FALSE, NoResult, <<>>)
        ELSE IF collapsed /\ event = "uncollapse_btn"
        THEN RunEnd(Expanded(sess), "", collapsed, TRUE, FALSE, NoResult, <<>>)
        ELSE LET inputs == IF collapsed THEN sess.user_inputs ELSE rendered
             IN  IF sess.analyze_clicked /\ inputs # None
                 THEN Analysis(sess, inputs, collapsed, event, gemini)
                 ELSE RunEnd(sess, "inputs", collapsed, FALSE, FALSE,
                             NoResult, <<>>)

\* The end of two runs in a row: the last call made in them.
Both(first, second) ==
    IF second.called THEN second
    ELSE [second EXCEPT !.called = first.called, !.res = first.res,
                        !.row = first.row, !.asked = first.asked]

\* A run that ended in st.rerun() is followed by another run.
Rerun(first, gemini) ==
    IF ~first.rerun THEN first
    ELSE Both(first, ScriptRun(first.sess, "none", gemini))

\* A run and, when it ends in st.rerun(), the run that follows it.
Script(sess, event, gemini) == Rerun(ScriptRun(sess, event, gemini), gemini)

----------------------------------------------------------------------------
(* The Classifier process.                                                 *)

\* A process starts and begins to import rhythm_mapping.
ProcessStart ==
    /\ pc = "stopped"
    /\ starts < MaxStarts
    /\ pc' = "line 8"
    /\ starts' = starts + 1
    /\ loads' = 0
    /\ UNCHANGED <<files, KMEANS_MODEL, SCALER, user_input, result, history,
                   ui, offline>>

\* Line 8, with the handler of lines 10-13.
LoadModel ==
    /\ pc = "line 8"
    /\ loads' = loads + 1
    /\ LET r == joblib_load(files.model)
       IN  IF r.ok
           THEN /\ KMEANS_MODEL' = r.val
                /\ pc' = "line 9"
                /\ UNCHANGED SCALER
           ELSE IF r.exc = "FileNotFoundError"
           THEN /\ KMEANS_MODEL' = None
                /\ SCALER' = None
                /\ pc' = "ready"
           ELSE /\ pc' = "crashed"
                /\ UNCHANGED <<KMEANS_MODEL, SCALER>>
    /\ UNCHANGED <<files, starts, user_input, result, history, ui,
                 offline>>

\* Line 9, with the handler of lines 10-13.
LoadScaler ==
    /\ pc = "line 9"
    /\ loads' = loads + 1
    /\ LET r == joblib_load(files.scaler)
       IN  IF r.ok
           THEN /\ SCALER' = r.val
                /\ pc' = "ready"
                /\ UNCHANGED KMEANS_MODEL
           ELSE IF r.exc = "FileNotFoundError"
           THEN /\ KMEANS_MODEL' = None
                /\ SCALER' = None
                /\ pc' = "ready"
           ELSE /\ pc' = "crashed"
                /\ UNCHANGED <<KMEANS_MODEL, SCALER>>
    /\ UNCHANGED <<files, starts, user_input, result, history, ui,
                 offline>>

Recorded(args, res) ==
    [model |-> KMEANS_MODEL, scaler |-> SCALER, args |-> args, result |-> res,
     run |-> starts]

\* A call that tries the load again when an artifact is missing.
Call_reloading(sleep_hours, screen_time, productivity_score) ==
    /\ pc = "ready"
    /\ result' = classify_rhythm_state(sleep_hours, screen_time,
                                       productivity_score)
    /\ user_input' = RowOf(sleep_hours, screen_time, productivity_score)
    /\ history' = history \cup
           {Recorded(<<sleep_hours, screen_time, productivity_score>>,
                     result')}
    /\ Cardinality(history') <= MaxRecorded
    /\ IF KMEANS_MODEL = None \/ SCALER = None
       THEN /\ loads' = loads + 2
            /\ KMEANS_MODEL' = joblib_load(files.model).val
            /\ SCALER' = joblib_load(files.scaler).val
       ELSE UNCHANGED <<KMEANS_MODEL, SCALER, loads>>
    /\ UNCHANGED <<files, pc, starts, ui,
                 offline>>

\* A caller invokes classify_rhythm_state once the module is imported.
Call(sleep_hours, screen_time, productivity_score) ==
    /\ pc = "ready"
    /\ result' = classify_rhythm_state(sleep_hours, screen_time,
                                       productivity_score)
    /\ user_input' = RowOf(sleep_hours, screen_time, productivity_score)
    /\ history' = history \cup
           {Recorded(<<sleep_hours, screen_time, productivity_score>>,
                     result')}
    /\ Cardinality(history') <= MaxRecorded
    /\ UNCHANGED <<files, pc, KMEANS_MODEL, SCALER, loads, starts, ui,
                 offline>>

\* The process ends; its globals go with it.
ProcessExit ==
    /\ pc \in {"ready", "crashed"}
    /\ pc' = "stopped"
    /\ KMEANS_MODEL' = None
    /\ SCALER' = None
    /\ loads' = 0
    /\ user_input' = <<>>
    /\ result' = NoResult
    /\ session' = NoSession
    /\ view' = NotOpened
    /\ asked' = ""
    /\ UNCHANGED <<files, starts, history, offline>>

----------------------------------------------------------------------------
(* The dashboard session: each action is a user event with the script     *)
(* runs it triggers.                                                      *)

\* The state the script leaves when its runs end as r.
Leaves(r) ==
    /\ session' = r.sess
    /\ view' = [page |-> r.page, expander |-> r.expander]
    /\ IF r.called
       THEN result' = r.res /\ user_input' = r.row
       ELSE UNCHANGED <<result, user_input>>
    /\ asked' = IF r.asked # "" THEN r.asked ELSE asked
    /\ UNCHANGED <<files, pc, KMEANS_MODEL, SCALER, loads, starts, history,
                   offline>>

\* The session becomes sess and the script runs for the event.
Runs(sess, event, gemini) ==
    /\ pc = "ready"
    /\ Leaves(Script(sess, event, gemini))

Opened == view.page \notin {"not opened", "uncaught exception"}

\* A browser opens the dashboard: the first run of the script.
OpenSession ==
    /\ view = NotOpened
    /\ \E g \in GeminiOutcomes : Runs(InitialSession, "none", g)

SleepValues == {0, 7}
ScreenTimeValues == {0, 8}
ProductivityValues == {0, 60}
GoalTexts == {"Finish presentation deck", "Rest"}

\* The user changes one widget of the input form.
EditSleep(v) ==
    /\ Opened
    /\ session.sleep_input # Float("sleep_hours", v)
    /\ \E g \in GeminiOutcomes :
           Runs([session EXCEPT !.sleep_input = Float("sleep_hours", v)],
                "none", g)

EditScreenTime(v) ==
    /\ Opened
    /\ session.screen_time_input # Float("screen_time", v)
    /\ \E g \in GeminiOutcomes :
           Runs([session EXCEPT !.screen_time_input = Float("screen_time", v)],
                "none", g)

EditProductivity(v) ==
    /\ Opened
    /\ session.productivity_slider # Float("productivity", v)
    /\ \E g \in GeminiOutcomes :
           Runs([session EXCEPT !.productivity_slider =
                                    Float("productivity", v)],
                "none", g)

EditGoal(text) ==
    /\ Opened
    /\ session.goal_text # text
    /\ \E g \in GeminiOutcomes :
           Runs([session EXCEPT !.goal_text = text], "none", g)

\* The user clicks a button the last run rendered.
ClickAnalyze ==
    /\ Opened
    /\ \E g \in GeminiOutcomes : Runs(session, "analyze_btn", g)

ClickUncollapse ==
    /\ Opened
    /\ view.expander
    /\ \E g \in GeminiOutcomes : Runs(session, "uncollapse_btn", g)

ClickErrorModify ==
    /\ view.page = "classification error"
    /\ \E g \in GeminiOutcomes : Runs(session, "error_modify_btn", g)

ClickNewAnalysis ==
    /\ view.page = "results"
    /\ \E g \in GeminiOutcomes : Runs(session, "new_analysis_btn", g)

ClickApiErrorModify ==
    /\ view.page = "api error"
    /\ \E g \in GeminiOutcomes : Runs(session, "api_error_modify_btn", g)

\* The buttons the last run rendered.
Offered ==
    IF ~Opened THEN {}
    ELSE {"analyze_btn"}
         \cup (IF view.expander THEN {"uncollapse_btn"} ELSE {})
         \cup (IF view.page = "classification error"
               THEN {"error_modify_btn"} ELSE {})
         \cup (IF view.page = "results" THEN {"new_analysis_btn"} ELSE {})
         \cup (IF view.page = "api error"
               THEN {"api_error_modify_btn"} ELSE {})

----------------------------------------------------------------------------
(* The Trainer: one run of unsupervised_analysis.py is ReadCsv, Fit,       *)
(* DumpModel, DumpScaler, unless it ends before.                           *)

csv_filename == "ScreenTime vs MentalWellness.csv"

\* Line 15: the text the handler prints.
NotFoundMessage ==
    "Error: Could not find '" \o csv_filename
        \o "'. Ensure it is in the same directory."

\* The script before its first run.
NotRun == [pc |-> "not run", run |-> 0, found |-> FALSE, scaler |-> None,
           kmeans |-> None, printed |-> "", before |-> None]

\* The handler of lines 14-16 without its exit().
ReadCsv_no_exit ==
    /\ trainer.pc \in {"not run", "done", "ended"}
    /\ trainer.run < MaxTrainings
    /\ trainer' = [pc |-> "fit", run |-> trainer.run + 1,
                   found |-> dataset = "present", scaler |-> None,
                   kmeans |-> None,
                   printed |-> IF dataset = "present" THEN ""
                               ELSE NotFoundMessage,
                   before |-> files]
    /\ UNCHANGED <<files, pc, KMEANS_MODEL, SCALER, loads, starts,
                   user_input, result, history, ui, dataset>>

\* Lines 11-16: a run starts and reads the dataset; without the file it
\* prints the message and exits.
ReadCsv ==
    /\ trainer.pc \in {"not run", "done", "ended"}
    /\ trainer.run < MaxTrainings
    /\ trainer' = [pc |-> IF dataset = "present" THEN "fit" ELSE "ended",
                   run |-> trainer.run + 1,
                   found |-> dataset = "present", scaler |-> None,
                   kmeans |-> None,
                   printed |-> IF dataset = "present" THEN ""
                               ELSE NotFoundMessage,
                   before |-> files]
    /\ UNCHANGED <<files, pc, KMEANS_MODEL, SCALER, loads, starts,
                   user_input, result, history, ui, dataset>>

\* Lines 19-58: the scaler and the final model are fitted in memory.
Fit ==
    /\ trainer.pc = "fit"
    /\ trainer' = [trainer EXCEPT !.pc = "line 61",
                                  !.scaler = TrainedScaler(trainer.run),
                                  !.kmeans = TrainedKMeans(trainer.run)]
    /\ UNCHANGED <<files, pc, KMEANS_MODEL, SCALER, loads, starts,
                   user_input, result, history, ui, dataset>>

\* Line 61: joblib.dump(kmeans, 'rhythm_kmeans_model.pkl').
DumpModel ==
    /\ trainer.pc = "line 61"
    /\ files' = [files EXCEPT !.model = Present(trainer.kmeans)]
    /\ trainer' = [trainer EXCEPT !.pc = "line 62"]
    /\ UNCHANGED <<pc, KMEANS_MODEL, SCALER, loads, starts, user_input,
                   result, history, ui, dataset>>

\* Line 62: joblib.dump(scaler, 'rhythm_scaler.pkl').
DumpScaler ==
    /\ trainer.pc = "line 62"
    /\ files' = [files EXCEPT !.scaler = Present(trainer.scaler)]
    /\ trainer' = [trainer EXCEPT !.pc = "done"]
    /\ UNCHANGED <<pc, KMEANS_MODEL, SCALER, loads, starts, user_input,
                   result, history, ui, dataset>>

\* The run ends before its last line: a statement raises or the process is
\* killed.
TrainerEnds ==
    /\ trainer.pc \in {"fit", "line 61", "line 62"}
    /\ trainer' = [trainer EXCEPT !.pc = "ended"]
    /\ UNCHANGED <<files, pc, KMEANS_MODEL, SCALER, loads, starts,
                   user_input, result, history, ui, dataset>>

\* Between runs the CSV file is put into the directory or taken out of it.
ChangeDataset ==
    /\ trainer.pc \in {"not run", "done", "ended"}
    /\ dataset' = IF dataset = "present" THEN "missing" ELSE "present"
    /\ UNCHANGED <<files, pc, KMEANS_MODEL, SCALER, loads, starts,
                   user_input, result, history, ui, trainer>>

----------------------------------------------------------------------------
(* The arguments of the calls.                                             *)

Sleep(v) == Float("sleep_hours", v)
Screen(v) == Float("screen_time", v)
Productivity(v) == Float("productivity", v)

CauseTexts == {"", "Unknown State"}

Triples ==
    { <<Sleep(0), Screen(0), Productivity(0)>>,
      <<Sleep(24), Screen(24), Productivity(100)>>,
      <<Sleep(8), Screen(2), Productivity(85)>>,
      <<NaN("sleep_hours"), Screen(2), Productivity(85)>>,
      <<Sleep(8), Screen(2), List("productivity")>> }
    \cup { <<Sleep(8), Object("screen_time", m), Productivity(85)>> :
             m \in CauseTexts }

Init ==
    /\ files \in [model : ModelFiles, scaler : ScalerFiles]
    /\ pc = "stopped"
    /\ KMEANS_MODEL = None
    /\ SCALER = None
    /\ loads = 0
    /\ starts = 0
    /\ user_input = <<>>
    /\ result = NoResult
    /\ history = {}
    /\ session = NoSession
    /\ view = NotOpened
    /\ asked = ""
    /\ dataset = "present"
    /\ trainer = NotRun

Next ==
    \/ ProcessStart
    \/ LoadModel
    \/ LoadScaler
    \/ \E t \in Triples : Call(t[1], t[2], t[3])
    \/ ProcessExit

Spec == Init /\ [][Next]_vars

\* The dashboard: the process and one browser session.
NextUI ==
    \/ ProcessStart
    \/ LoadModel
    \/ LoadScaler
    \/ OpenSession
    \/ \E v \in SleepValues : EditSleep(v)
    \/ \E v \in ScreenTimeValues : EditScreenTime(v)
    \/ \E v \in ProductivityValues : EditProductivity(v)
    \/ \E text \in GoalTexts : EditGoal(text)
    \/ ClickAnalyze
    \/ ClickUncollapse
    \/ ClickErrorModify
    \/ ClickNewAnalysis
    \/ ClickApiErrorModify
    \/ ProcessExit

SpecUI == Init /\ [][NextUI]_vars

\* The artifacts of an earlier run of the Trainer, or none yet.
EarlierRun == 0

InitTrainer ==
    /\ files \in {[model |-> Absent, scaler |-> Absent],
                  [model |-> Present(TrainedKMeans(EarlierRun)),
                   scaler |-> Present(TrainedScaler(EarlierRun))]}
    /\ pc = "stopped"
    /\ KMEANS_MODEL = None
    /\ SCALER = None
    /\ loads = 0
    /\ starts = 0
    /\ user_input = <<>>
    /\ result = NoResult
    /\ history = {}
    /\ session = NoSession
    /\ view = NotOpened
    /\ asked = ""
    /\ dataset \in {"present", "missing"}
    /\ trainer = NotRun

\* The Trainer and the start-up of the Classifier, in any interleaving.
NextTrainer ==
    \/ ReadCsv
    \/ Fit
    \/ DumpModel
    \/ DumpScaler
    \/ TrainerEnds
    \/ ChangeDataset
    \/ ProcessStart
    \/ LoadModel
    \/ LoadScaler
    \/ ProcessExit

SpecTrainer == InitTrainer /\ [][NextTrainer]_vars

----------------------------------------------------------------------------
(* Properties.                                                             *)

HasPrefix(v, p) == Len(v) >= Len(p) /\ SubSeq(v, 1, Len(p)) = p

\* The five legitimate labels: the styled names other than the neutral one.
StateLabels == DOMAIN RHYTHM_STATES \ {"Unknown State"}

Calls == history

Loaded(h) == h.model # None /\ h.scaler # None

\* C1: a call never raises to its caller; it returns one of the five
\* state labels or one of the sentinel results, whatever the load state
\* and whatever the arguments.
C1_NoFaultEscapes ==
    \A h \in Calls \cup {[result |-> result]} :
        h.result.outcome # "none" =>
            /\ h.result.outcome = "return"
            /\ \/ h.result.value \in StateLabels
               \/ h.result.value \in {"Classification Error",
                                      "Model Not Fitted Error",
                                      "Unknown State"}
               \/ HasPrefix(h.result.value, "Classification Error: ")

\* A malformed argument made transform fail and the call returned.
C1_Witness ==
    \E h \in Calls :
        /\ Loaded(h)
        /\ \E i \in 1..3 : h.args[i].kind = "object"
        /\ h.result.branch = "generic"

\* C2: in a process started with either artifact file absent, every call
\* returns the unavailable sentinel.
C2_AbsentMeansUnavailable ==
    (files.model.state = "absent" \/ files.scaler.state = "absent") =>
        /\ pc = "ready" => KMEANS_MODEL = None /\ SCALER = None
        /\ \A h \in Calls : h.result = Return("Classification Error",
                                              "unavailable")

\* Only the scaler file is absent, and the boundary triples were classified.
C2_Witness ==
    /\ files.model.state = "ok"
    /\ files.scaler.state = "absent"
    /\ \E h \in Calls :
           h.args = <<Sleep(24), Screen(24), Productivity(100)>>
    /\ \E h \in Calls : h.args = <<Sleep(0), Screen(0), Productivity(0)>>

\* A load of a file that is there and cannot be unpickled has been tried.
LoadFailed ==
    \/ loads >= 1 /\ files.model.state = "corrupt"
    \/ loads >= 2 /\ files.scaler.state = "corrupt"

\* C3: a present artifact file that fails to load does not crash the
\* Classifier; the process is ready with both globals None and every
\* call returns the unavailable result.
C3_CorruptMeansUnavailable ==
    LoadFailed =>
        /\ pc = "ready"
        /\ KMEANS_MODEL = None
        /\ SCALER = None
        /\ result.outcome # "none" => result.value = "Classification Error"

Unfitted(h) == Loaded(h) /\ (~h.model.fitted \/ ~h.scaler.fitted)

\* C4 as stated: with both artifacts loaded and one of them not fitted,
\* every call returns the not-fitted result, whatever the arguments.
C4_NotFittedForEveryInput ==
    \A h \in Calls :
        Unfitted(h) => h.result = Return("Model Not Fitted Error",
                                         "not fitted")

\* C4 amended: with both artifacts loaded and one of them not fitted, a
\* call with three finite real arguments returns the not-fitted result;
\* with any arguments it returns the not-fitted result or the generic
\* error result, never the unavailable result or a state label.
C4_NotFittedForRealInput ==
    \A h \in Calls :
        Unfitted(h) =>
            /\ (\A i \in 1..3 : h.args[i].kind = "float") =>
                   h.result = Return("Model Not Fitted Error", "not fitted")
            /\ h.result.outcome = "return"
            /\ \/ h.result.value = "Model Not Fitted Error"
               \/ HasPrefix(h.result.value, "Classification Error: ")

\* A fitted scaler, an unfitted model, and a call with real arguments.
C4_Witness ==
    \E h \in Calls :
        /\ Loaded(h)
        /\ h.scaler.fitted
        /\ ~h.model.fitted
        /\ \A i \in 1..3 : h.args[i].kind = "float"
        /\ h.result.value = "Model Not Fitted Error"

\* The cluster index the loaded artifacts give the recorded arguments.
IndexOf(h) ==
    CHOOSE i \in {predict(h.model, s).val[1] :
                    s \in {transform(h.scaler,
                                     build_user_input(h.args[1], h.args[2],
                                                      h.args[3])).val}} : TRUE

Predicts(h) ==
    /\ Loaded(h)
    /\ h.model.fitted
    /\ h.scaler.fitted
    /\ \A i \in 1..3 : h.args[i].kind = "float"

\* C5: a predicted cluster index that is no key of CLUSTER_TO_STATE gives
\* the result "Unknown State".
C5_UnknownIndex ==
    \A h \in Calls :
        (Predicts(h) /\ IndexOf(h) \notin 0..4) =>
            /\ h.result.outcome = "return"
            /\ h.result.value = "Unknown State"

\* The model predicted an index beyond the table.
C5_Witness ==
    \E h \in Calls : Predicts(h) /\ IndexOf(h) = 5

\* The conditions a returned value can be read as.
ReadAs(v) ==
    {c \in {"unavailable", "not fitted", "generic", "unknown index", "label"} :
        CASE c = "unavailable" -> v = "Classification Error"
          [] c = "not fitted" -> v = "Model Not Fitted Error"
          [] c = "generic" -> HasPrefix(v, "Classification Error: ")
          [] c = "unknown index" -> v = "Unknown State"
          [] OTHER -> v \in StateLabels}

\* C6: the returned value tells the condition that produced it: the four
\* error conditions and the legitimate labels give values that can be
\* read as exactly one of them, the one that occurred, whatever the cause
\* text.
C6_Distinguishable ==
    \A h \in Calls :
        h.result.outcome = "return" => ReadAs(h.result.value) = {h.result.branch}

\* A generic error with an empty cause and one whose cause is the text of
\* another sentinel.
C6_Witness ==
    /\ \E h \in Calls : h.result.value = "Classification Error: "
    /\ \E h \in Calls :
           h.result.value = "Classification Error: Unknown State"

\* C7: CLUSTER_TO_STATE maps the indices 0..4 one-to-one onto the five
\* labels, none of them empty, so a returned label names one index.
C7_TableBijection ==
    /\ DOMAIN CLUSTER_TO_STATE = 0..4
    /\ \A i \in 0..4 : CLUSTER_TO_STATE[i] # ""
    /\ \A i, j \in 0..4 : CLUSTER_TO_STATE[i] = CLUSTER_TO_STATE[j] => i = j
    /\ {CLUSTER_TO_STATE[i] : i \in 0..4} = StateLabels
    /\ \A h \in Calls :
           h.result.branch = "label" =>
               Cardinality({i \in 0..4 :
                               CLUSTER_TO_STATE[i] = h.result.value}) = 1

\* A call returned a label through the table.
C7_Witness ==
    \E h \in Calls : h.result.branch = "label" /\ IndexOf(h) = 3

C9_CallsKeepLoadState ==
    [][(\E t \in Triples : Call(t[1], t[2], t[3])) =>
          UNCHANGED <<files, pc, KMEANS_MODEL, SCALER, loads>>]_vars

\* A call was made in the unloaded state and the globals are still None.
C9_Witness ==
    /\ pc = "ready"
    /\ loads = 1
    /\ KMEANS_MODEL = None
    /\ result.branch = "unavailable"
    /\ files.scaler.state = "ok"

\* The quantity a Trainer column holds.
QuantityOf(column) ==
    CASE column = "screen_time_hours" -> "screen_time"
      [] column = "sleep_hours" -> "sleep_hours"
      [] column = "productivity_0_100" -> "productivity"

\* C10: the row given to the scaler holds, position by position, the
\* quantities of the Trainer's CLUSTER_FEATURES (screen time, sleep,
\* productivity), and the inputs the dashboard stores and passes on keep
\* each widget's value under its own name.
C10_FeatureOrder ==
    /\ user_input # <<>> =>
           /\ Len(user_input) = Len(CLUSTER_FEATURES)
           /\ \A i \in 1..Len(CLUSTER_FEATURES) :
                  user_input[i].q = QuantityOf(CLUSTER_FEATURES[i])
    /\ session.user_inputs # None =>
           /\ session.user_inputs.sleep_hours.q = "sleep_hours"
           /\ session.user_inputs.screen_time.q = "screen_time"
           /\ session.user_inputs.productivity_score.q = "productivity"

\* The dashboard classified stored inputs whose three values differ and
\* showed the results.
C10_Witness ==
    /\ view.page = "results"
    /\ user_input # <<>>
    /\ user_input[1].v = 8
    /\ user_input[2].v = 0
    /\ user_input[3].v = 60

\* A click on the button ends in the editable-input view, whatever the
\* text-generation service answers in the runs the click triggers.
ReturnsToInputs(event) ==
    \A g \in GeminiOutcomes :
        \A r \in {Script(session, event, g)} :
            r.sess.input_expanded /\ r.page = "inputs"

\* C11: a result of classify that is not a label is shown as the
\* classification-error notice, never as the state card, and that view
\* offers a button that returns to the editable inputs; from every view of
\* an open session (inputs, results, classification error, text-generation
\* error) the inputs are expanded or some offered button expands them, and
\* no run ends in an uncaught exception.
C11_NoDeadEnd ==
    /\ view.page # "uncaught exception"
    /\ Opened =>
           /\ session.analyze_clicked =>
                  (result.value \notin StateLabels
                       <=> view.page = "classification error")
           /\ view.page = "classification error" =>
                  /\ "error_modify_btn" \in Offered
                  /\ ReturnsToInputs("error_modify_btn")
           /\ session.input_expanded
                  \/ \E e \in Offered : ReturnsToInputs(e)

\* The user is back at the editable inputs after an analysis that ended in
\* the classification-error notice.
C11_Witness ==
    /\ view.page = "inputs"
    /\ session.input_expanded
    /\ session.user_inputs # None
    /\ result.value = "Unknown State"

\* The outcomes of the text-generation call that are failures.
GeminiFailures == GeminiOutcomes \ {"ok"}

\* C12: a run whose text-generation call fails (the request raises, or the
\* answer is not the JSON asked for) ends in the API-error notice and not
\* in an uncaught exception, with the session's stored inputs and flags as
\* they were and the classification the run computed unchanged by the
\* failure; the API-error view is only ever shown over a label, a stored
\* snapshot and the collapsed flags.
C12_FailureCaught ==
    /\ view.page = "api error" =>
           /\ result.value \in StateLabels
           /\ session.user_inputs # None
           /\ session.analyze_clicked /\ ~session.input_expanded
    /\ Opened /\ session.analyze_clicked /\ result.value \in StateLabels =>
           \A g \in GeminiFailures, event \in {"none", "new_analysis_btn"} :
               \A r \in {ScriptRun(session, event, g)} :
                   /\ r.page = "api error"
                   /\ ~r.rerun
                   /\ r.sess = session
                   /\ r.called /\ r.res = result
                   /\ r.asked = result.value

\* A run's text-generation call failed and the notice is shown.
C12_Witness ==
    /\ view.page = "api error"
    /\ asked = result.value
    /\ result.value \in StateLabels

\* C13: a run of the Trainer that does not find the dataset ends at once,
\* having printed a message that names the expected file; it fits nothing
\* and the two artifact files are as they were when it started, so
\* artifacts of an earlier run stay in place.
C13_MissingDatasetAborts ==
    trainer.run > 0 /\ ~trainer.found =>
        /\ trainer.pc = "ended"
        /\ HasPrefix(trainer.printed, "Error")
        /\ Contains(trainer.printed, csv_filename)
        /\ trainer.scaler = None /\ trainer.kmeans = None
        /\ files = trainer.before

\* The second run found no dataset; the artifacts of the first are on disk.
C13_Witness ==
    /\ trainer.run = 2
    /\ trainer.pc = "ended"
    /\ ~trainer.found
    /\ files = [model |-> Present(TrainedKMeans(1)),
                scaler |-> Present(TrainedScaler(1))]

\* C14: once its load is over, the Classifier holds neither artifact or a
\* model and a scaler fitted by the same run of the Trainer.
C14_SameRunPair ==
    pc = "ready" =>
        \/ KMEANS_MODEL = None /\ SCALER = None
        \/ /\ KMEANS_MODEL # None
           /\ SCALER # None
           /\ KMEANS_MODEL.run = SCALER.run

\* The button events a run can carry.
Events == {"none", "analyze_btn", "uncollapse_btn", "error_modify_btn",
           "new_analysis_btn", "api_error_modify_btn"}

\* C15: the state name that reaches the styling lookup of line 329 and the
\* text-generation call is always one of the five labels: the lookup never
\* fails, the result and API-error views stand over a label, and a run
\* whose classification is an error result or "Unknown State" makes no
\* text-generation call.
C15_OnlyLabelsReachService ==
    /\ asked # "" => asked \in StateLabels /\ asked \in DOMAIN RHYTHM_STATES
    /\ view.page # "uncaught exception"
    /\ view.page \in {"results", "api error"} =>
           result.value \in StateLabels /\ asked = result.value
    /\ Opened /\ session.analyze_clicked /\ result.value \notin StateLabels =>
           \A e \in Events, g \in GeminiOutcomes :
               \A r \in {ScriptRun(session, e, g)} :
                   r.called => r.asked = ""

\* The session asked the service about a label earlier and now shows the
\* error notice for "Unknown State", about which it did not ask.
C15_Witness ==
    /\ view.page = "classification error"
    /\ result.value = "Unknown State"
    /\ asked \in StateLabels

\* The session's flags are complementary and a set analyze_clicked comes
\* with a stored snapshot.
FlagsAgree(sess) ==
    /\ sess.analyze_clicked = ~sess.input_expanded
    /\ sess.analyze_clicked => sess.user_inputs # None

\* The row line 40 builds from the stored snapshot.
StoredRow ==
    build_user_input(session.user_inputs.sleep_hours,
                     session.user_inputs.screen_time,
                     session.user_inputs.productivity_score)

\* C16: in an open session every script run, the ones that end in a rerun
\* included, leaves analyze_clicked = ~input_expanded with a stored
\* snapshot whenever analyze_clicked is set; a run calls
\* classify_rhythm_state (and with it the text-generation service) only
\* when it starts collapsed, and the row it classifies is built from the
\* snapshot stored at the last analyze click, not from the widgets.
C16_FlagsComplementary ==
    Opened =>
        /\ FlagsAgree(session)
        /\ user_input # <<>> =>
               session.user_inputs # None /\ user_input = StoredRow
        /\ \A e \in Offered \cup {"none"}, g \in GeminiOutcomes :
               \A r \in {ScriptRun(session, e, g)} :
                   /\ FlagsAgree(r.sess)
                   /\ r.called =>
                          /\ session.analyze_clicked
                          /\ ~session.input_expanded
                          /\ r.row \in {<<>>, StoredRow}
                   /\ r.asked # "" => r.called

\* The results are shown for the stored snapshot while the widgets inside
\* the collapsed expander hold other values.
C16_Witness ==
    /\ view.page = "results"
    /\ session.analyze_clicked
    /\ session.sleep_input # session.user_inputs.sleep_hours
    /\ user_input = StoredRow

====
